---- MODULE Spec2Model ----
(***************************************************************************)
(* The ledger notification scheduler of browser-laptop                     *)
(* (src/unnamed/part_000): the polling timer, the tick handler and its     *)
(* reconciliation-window rules, the launch handler, the new-transaction    *)
(* handler and the notification-response handler; and the publisher        *)
(* predicates of src/app/common/lib/ledgerUtil.js.                         *)
(*                                                                         *)
(* Time.  The code counts epoch milliseconds.  The model counts polling    *)
(* intervals: pollingInterval is the unit, and a day is IntervalsPerDay    *)
(* units (96 in the code: 24 h of 15 min).  Every rule of the code compares *)
(* sums of timestamps and multiples of a day, so it is the same rule at    *)
(* every scale.  A handler reads the clock once: a tick is short against   *)
(* the unit.                                                               *)
(*                                                                         *)
(* Absent values.  The code reads every optional number through `!x`,      *)
(* `x || 0` or `x && ...`, so undefined, null and 0 are one case to it; the *)
(* model writes that case 0.                                               *)
(*                                                                         *)
(* Amounts are integers, and balance + unconfirmed > 0.9 * bat is          *)
(* 10 * (balance + unconfirmed) > 9 * bat: the comparison itself, without  *)
(* the rounding of floating point.                                         *)
(*                                                                         *)
(* The timer callback is given the state that init was given               *)
(* (setInterval's third argument), so a timer keeps that state.  Settings  *)
(* are read through getSetting at each use.                                *)
(*                                                                         *)
(* The specifications share the actions and differ in the wallets and the  *)
(* handlers they exercise: Spec, the polling loop over many wallets;       *)
(* SpecEvents, with launch and new transactions as well, over few wallets  *)
(* and a short time; SpecWallet, the wallet changing under the timer;      *)
(* SpecLaunch, the launches of old and new profiles; SpecLedger, the       *)
(* publisher predicates of ledgerUtil.js on every input; SpecVisible,      *)
(* visibleP; SpecVisits, eligibleP on growing counts; SpecMedia and        *)
(* SpecMediaKey, the media functions of ledgerUtil.js; SpecStatus,         *)
(* walletStatus; SpecTabs, the frames of a tab page                        *)
(* (app/renderer/components/tabs/tabPage.js).                              *)
(***************************************************************************)
EXTENDS Integers, Sequences, FiniteSets

VARIABLES
  now,              \* new Date().getTime()
  appState,         \* the application state (ledger info, first run, migration)
  intervalTimeout,  \* the module's timer handle; 0 is undefined
  timers,           \* the runtime's live interval timers: id -> [remaining, state]
  textPaymentDone,  \* text.paymentDone
  settings,         \* the persisted settings read by getSetting
  hasBeenNotified,  \* migration state: the upgrade notification was shown
  notifications,    \* the presentation sink: the messages outstanding
  op,               \* history: the handler the last step ran, with its arguments
  calls,            \* history: the appActions calls that handler made, in order
  ticksAtNow,       \* history: the ticks fired at the current clock value
  coolDown,         \* history: the latest instant any emission of a kind snoozed to
  ledger,           \* what ledgerUtil's predicates read of the state, for one publisher
  media,            \* what ledgerUtil's media functions are given
  tabs,             \* the current window's frames and the tabs-per-page setting
  answer            \* history: the function called last, and what it returned

vars == <<now, appState, intervalTimeout, timers, textPaymentDone, settings,
          hasBeenNotified, notifications, op, calls, ticksAtNow, coolDown,
          ledger, media, tabs, answer>>

schedulerVars ==
  <<now, appState, intervalTimeout, timers, textPaymentDone, settings,
    hasBeenNotified, notifications, op, calls, ticksAtNow, coolDown>>

ledgerVars == <<ledger, media, tabs, answer>>

----------------------------------------------------------------------------
(* Bounds of the model *)

IntervalsPerDay == 2
MaxNow == 12
MaxTimers == 2
GraceDays == 2
MaxEventIntervals == 1
MaxWalletIntervals == 4
MaxCount == 2

(* Constants of the program *)

pollingInterval == 1
day == IntervalsPerDay * pollingInterval
nextAddFundsTime == 3 * day
delayNotificationTryPayments == GraceDays * day

Max(a, b) == IF a > b THEN a ELSE b

----------------------------------------------------------------------------
(* Messages: a notification is identified by its text *)

Text(key) == [key |-> key, amount |-> 0, currency |-> ""]

textAddFunds == Text("addFunds")
textTryPayments == Text("tryPayments")
textReconciliation == Text("reconciliation")
textWalletConvertedToBat == Text("walletConvertedToBat")
textUndefined == Text("undefined")

Amounts == {1, 2}
Currencies == {"USD", "EUR"}

\* transactionContributionFiat of a new transaction: two contributions, of
\* different amounts in different currencies
Fiats ==
  {fiat \in [amount : Amounts, currency : Currencies] :
     (fiat.amount = 1) <=> (fiat.currency = "USD")}

\* locale.translation('notificationPaymentDone') with {{amount}} and
\* {{currency}} replaced
PaymentDoneText(fiat) ==
  [key |-> "paymentDone", amount |-> fiat.amount, currency |-> fiat.currency]

Messages ==
  {textAddFunds, textTryPayments, textReconciliation, textWalletConvertedToBat}
    \cup {PaymentDoneText(fiat) : fiat \in Fiats}

----------------------------------------------------------------------------
(* The application state handed to init and onLaunch *)

AppStates(balances, unconfirmeds, bats, stamps, frequencies, firstRuns, news, upgradeds) ==
  [balance : balances, unconfirmed : unconfirmeds, bat : bats,
   reconcileStamp : stamps, reconcileFrequency : frequencies,
   firstRunTimestamp : firstRuns,
   isNewInstall : news, hasUpgradedWallet : upgradeds]

\* wallets on each side of, and on, the 90% line, with and without a
\* contribution target and a reconcile stamp
PollingStates ==
  AppStates({0, 90}, {0, 10}, {0, 100}, {0, 3 * day}, {1, 3}, {1}, {FALSE}, {TRUE})

----------------------------------------------------------------------------
(* appActions: the calls the scheduler makes on its collaborators.  A world *)
(* is what those calls act on, threaded through a handler.                  *)

Call(fn, key, num, flag) ==
  [fn |-> fn, key |-> key, num |-> num, flag |-> flag, cur |-> ""]

\* a call whose argument is a message
CallMessage(fn, message) ==
  [fn |-> fn, key |-> message.key, num |-> message.amount, flag |-> FALSE,
   cur |-> message.currency]

World ==
  [settings |-> settings, notifications |-> notifications,
   hasBeenNotified |-> hasBeenNotified, calls |-> <<>>]

changeSettingFlag(w, key, value) ==
  [w EXCEPT !.settings = [@ EXCEPT ![key] = value],
            !.calls = Append(@, Call("changeSetting", key, 0, value))]

changeSettingTime(w, key, value) ==
  [w EXCEPT !.settings = [@ EXCEPT ![key] = value],
            !.calls = Append(@, Call("changeSetting", key, value, FALSE))]

showNotification(w, message) ==
  [w EXCEPT !.notifications = @ \cup {message},
            !.calls = Append(@, CallMessage("showNotification", message))]

hideNotification(w, message) ==
  [w EXCEPT !.notifications = @ \ {message},
            !.calls = Append(@, CallMessage("hideNotification", message))]

createTabRequested(w, url) ==
  [w EXCEPT !.calls = Append(@, Call("createTabRequested", url, 0, FALSE))]

onBitcoinToBatNotified(w) ==
  [w EXCEPT !.hasBeenNotified = TRUE,
            !.calls = Append(@, Call("onBitcoinToBatNotified", "", 0, FALSE))]

\* an uncaught TypeError ends the handler: what it did before stays done
throwTypeError(w) ==
  [w EXCEPT !.calls = Append(@, Call("TypeError", "", 0, FALSE))]

----------------------------------------------------------------------------
(* The scheduler's predicates *)

sufficientBalanceToReconcile(state) ==
  /\ state.bat # 0
  /\ 10 * (state.balance + state.unconfirmed) > 9 * state.bat

\* variant: an empty wallet counts as funded (>= for >)
hasFundsFromZero(w, state) ==
  (IF w.settings.paymentsEnabled THEN state.balance ELSE 0) >= 0

hasFunds(w, state) ==
  (IF w.settings.paymentsEnabled THEN state.balance ELSE 0) > 0

shouldShowNotificationReviewPublishers(w) ==
  LET nextTime == w.settings.reconcileSoonTimestamp
  IN  nextTime = 0 \/ now > nextTime

\* variant: the snooze is over at its timestamp already (>= for >)
shouldShowNotificationAddFundsAtTimestamp(w) ==
  LET nextTime == w.settings.addFundsTimestamp
  IN  nextTime = 0 \/ now >= nextTime

shouldShowNotificationAddFunds(w) ==
  LET nextTime == w.settings.addFundsTimestamp
  IN  nextTime = 0 \/ now > nextTime

----------------------------------------------------------------------------
(* The notifications *)

showReviewPublishers(w, nextTime) ==
  showNotification(changeSettingTime(w, "reconcileSoonTimestamp", nextTime),
                   textReconciliation)

\* variant: the add-funds snooze lasts one day, not nextAddFundsTime
showAddFundsOneDay(w) ==
  LET nextTime == now + day
  IN  showNotification(changeSettingTime(w, "addFundsTimestamp", nextTime),
                       textAddFunds)

showAddFunds(w) ==
  LET nextTime == now + nextAddFundsTime
  IN  showNotification(changeSettingTime(w, "addFundsTimestamp", nextTime),
                       textAddFunds)

\* variant: the add-funds message is left outstanding
showPaymentDoneKeepAddFunds(w, text) ==
  showNotification(w, text)

showPaymentDone(w, text) ==
  showNotification(hideNotification(w, textAddFunds), text)

showBraveWalletUpdated(w) ==
  showNotification(onBitcoinToBatNotified(w), textWalletConvertedToBat)

\* variant: the review window opens three days before reconciliation
showEnabledNotificationsThreeDays(w, state) ==
  LET reconcileStamp == state.reconcileStamp
  IN  IF reconcileStamp = 0 THEN w
      ELSE IF reconcileStamp - now < day
      THEN IF sufficientBalanceToReconcile(state)
           THEN IF shouldShowNotificationReviewPublishers(w)
                THEN showReviewPublishers(w,
                       reconcileStamp + (state.reconcileFrequency - 2) * day)
                ELSE w
           ELSE IF shouldShowNotificationAddFunds(w)
                THEN showAddFunds(w)
                ELSE w
      ELSE IF reconcileStamp - now < 3 * day
      THEN IF sufficientBalanceToReconcile(state)
                /\ shouldShowNotificationReviewPublishers(w)
           THEN showReviewPublishers(w, now + day)
           ELSE w
      ELSE w

showEnabledNotifications(w, state) ==
  LET reconcileStamp == state.reconcileStamp
  IN  IF reconcileStamp = 0 THEN w
      ELSE IF reconcileStamp - now < day
      THEN IF sufficientBalanceToReconcile(state)
           THEN IF shouldShowNotificationReviewPublishers(w)
                THEN showReviewPublishers(w,
                       reconcileStamp + (state.reconcileFrequency - 2) * day)
                ELSE w
           ELSE IF shouldShowNotificationAddFunds(w)
                THEN showAddFunds(w)
                ELSE w
      ELSE IF reconcileStamp - now < 2 * day
      THEN IF sufficientBalanceToReconcile(state)
                /\ shouldShowNotificationReviewPublishers(w)
           THEN showReviewPublishers(w, now + day)
           ELSE w
      ELSE w

\* variant: the grace delay must be over by more than an instant (<= for <)
showDisabledNotificationsLate(w, state) ==
  IF ~w.settings.tryPaymentsDismissed
  THEN IF now - state.firstRunTimestamp <= delayNotificationTryPayments
       THEN w
       ELSE showNotification(w, textTryPayments)
  ELSE w

showDisabledNotifications(w, state) ==
  IF ~w.settings.tryPaymentsDismissed
  THEN IF now - state.firstRunTimestamp < delayNotificationTryPayments
       THEN w
       ELSE showNotification(w, textTryPayments)
  ELSE w

----------------------------------------------------------------------------
(* The handlers *)

onInterval(w, state) ==
  IF w.settings.paymentsEnabled
  THEN IF w.settings.notificationsEnabled
       THEN showEnabledNotifications(w, state)
       ELSE w
  ELSE showDisabledNotifications(w, state)

\* variant: the upgrade message does not ask whether it was shown before
onLaunchEveryTime(w, state) ==
  IF ~w.settings.paymentsEnabled THEN w
  ELSE IF hasFunds(w, state)
       THEN IF ~w.settings.notificationsEnabled THEN w
            ELSE IF ~state.isNewInstall /\ state.hasUpgradedWallet
                 THEN showBraveWalletUpdated(w)
                 ELSE w
       ELSE w

\* ledger.checkBtcBatMigrated, which onLaunch calls first, is not part of the
\* scheduler; the migration flags are read as the state holds them
onLaunch(w, state) ==
  IF ~w.settings.paymentsEnabled THEN w
  ELSE IF hasFunds(w, state)
       THEN IF ~w.settings.notificationsEnabled THEN w
            ELSE IF ~state.isNewInstall /\ state.hasUpgradedWallet
                    /\ ~w.hasBeenNotified
                 THEN showBraveWalletUpdated(w)
                 ELSE w
       ELSE w

\* The cases of onResponse's switch.  Each gives the world after the case and
\* whether the case broke out of the switch, to the hideNotification that ends
\* the handler (FALSE: the handler returned, or threw, before it).

\* variant: "Later" is taken for "Add funds" (button 1 for button 2)
onResponseAddFundsOnLater(w, buttonIndex, activeWindow) ==
  [broke |-> TRUE,
   w |-> IF buttonIndex = 0
         THEN changeSettingFlag(w, "notificationsEnabled", FALSE)
         ELSE IF buttonIndex = 1 /\ activeWindow
              THEN createTabRequested(w, "about:preferences#payments")
              ELSE w]

onResponseAddFunds(w, buttonIndex, activeWindow) ==
  [broke |-> TRUE,
   w |-> IF buttonIndex = 0
         THEN changeSettingFlag(w, "notificationsEnabled", FALSE)
         ELSE IF buttonIndex = 2 /\ activeWindow
              THEN createTabRequested(w, "about:preferences#payments")
              ELSE w]

onResponseReconciliation(w, buttonIndex, activeWindow) ==
  [broke |-> TRUE,
   w |-> IF buttonIndex = 0
         THEN changeSettingFlag(w, "notificationsEnabled", FALSE)
         ELSE IF buttonIndex = 2 /\ activeWindow
              THEN createTabRequested(w, "about:preferences#payments")
              ELSE w]

onResponsePaymentDone(w, buttonIndex, activeWindow) ==
  [broke |-> TRUE,
   w |-> IF buttonIndex = 0
         THEN changeSettingFlag(w, "notificationsEnabled", FALSE)
         ELSE w]

\* variant: the dismissal is recorded only with the panel opened
onResponseTryPaymentsOnYes(w, buttonIndex, activeWindow) ==
  [broke |-> TRUE,
   w |-> IF buttonIndex = 1 /\ activeWindow
         THEN changeSettingFlag(
                createTabRequested(w, "about:preferences#payments"),
                "tryPaymentsDismissed", TRUE)
         ELSE w]

onResponseTryPayments(w, buttonIndex, activeWindow) ==
  [broke |-> TRUE,
   w |-> changeSettingFlag(
           IF buttonIndex = 1 /\ activeWindow
           THEN createTabRequested(w, "about:preferences#payments")
           ELSE w,
           "tryPaymentsDismissed", TRUE)]

\* activeWindow.id of no window is a TypeError
onResponseWalletConvertedToBat(w, buttonIndex, activeWindow) ==
  IF buttonIndex = 0
  THEN IF activeWindow
       THEN [broke |-> TRUE,
             w |-> createTabRequested(w,
                     "about:preferences#payments?ledgerBackupOverlayVisible")]
       ELSE [broke |-> FALSE, w |-> throwTypeError(w)]
  ELSE [broke |-> TRUE, w |-> w]

\* the switch compares the message with the texts, text.paymentDone as it is now
onResponseCase(w, message, buttonIndex, activeWindow) ==
  IF message = textAddFunds
  THEN onResponseAddFunds(w, buttonIndex, activeWindow)
  ELSE IF message = textReconciliation
  THEN onResponseReconciliation(w, buttonIndex, activeWindow)
  ELSE IF message = textPaymentDone
  THEN onResponsePaymentDone(w, buttonIndex, activeWindow)
  ELSE IF message = textTryPayments
  THEN onResponseTryPayments(w, buttonIndex, activeWindow)
  ELSE IF message = textWalletConvertedToBat
  THEN onResponseWalletConvertedToBat(w, buttonIndex, activeWindow)
  ELSE [broke |-> FALSE, w |-> w]

onResponse(w, message, buttonIndex, activeWindow) ==
  LET c == onResponseCase(w, message, buttonIndex, activeWindow)
  IN  IF c.broke THEN hideNotification(c.w, message) ELSE c.w

----------------------------------------------------------------------------
(* ledgerUtil (src/app/common/lib/ledgerUtil.js): the publisher predicates. *)
(* They read, for one publisher key, two site settings, the publisher's     *)
(* record and three synopsis options.                                       *)

\* the values an option can have to JavaScript: unset, null, true, false
jsOptions == {"undefined", "null", "true", "false"}

jsBoolean(b) == IF b THEN "true" ELSE "false"
jsTruthy(v) == v = "true"
\* v == null
jsNullish(v) == v \in {"undefined", "null"}
\* !v
jsNot(v) == jsBoolean(~jsTruthy(v))

\* a number that can be undefined: << >> or << n >>; a comparison with
\* undefined is false
jsNumbers(ns) == {<< >>} \cup {<<n>> : n \in ns}
jsGreater(a, b) == a # << >> /\ b # << >> /\ a[1] > b[1]
jsAtLeast(a, b) == a # << >> /\ b # << >> /\ a[1] >= b[1]

LedgerStates ==
  [ledgerPayments : jsOptions,            \* site setting ledgerPayments
   ledgerPaymentsShown : jsOptions,       \* site setting ledgerPaymentsShown
   exclude : jsOptions,                   \* publisher.options.exclude
   score : jsNumbers(0..1),               \* publisher.scores[scorekeeper]
   duration : jsNumbers(0..MaxCount),     \* publisher.duration
   visits : jsNumbers(0..MaxCount),       \* publisher.visits
   minPublisherDuration : jsNumbers({1}), \* synopsis option
   minPublisherVisits : jsNumbers({1}),   \* synopsis option
   verified : {"undefined"},              \* publisher.options.verified
   showOnlyVerified : {"undefined"},      \* synopsis option
   allowNonVerified : {"true"}]           \* getSetting(PAYMENTS_ALLOW_NON_VERIFIED)

\* the states visibleP is called on: every value of the site setting, the
\* verified option, the synopsis option and the general setting, for a
\* publisher eligible or not
VisibleStates ==
  [ledgerPayments : {"undefined"},
   ledgerPaymentsShown : jsOptions,
   exclude : {"undefined"},
   score : jsNumbers(0..1),
   duration : {<<1>>},
   visits : {<<1>>},
   minPublisherDuration : {<<1>>},
   minPublisherVisits : {<<1>>},
   verified : jsOptions,
   showOnlyVerified : jsOptions,
   allowNonVerified : {"true", "false"}]

blockedP(state) ==
  state.ledgerPaymentsShown = "false"

\* variant: exactly the minimum of visits is asked for (=== for >=)
eligiblePExactVisits(state) ==
  /\ jsGreater(state.score, <<0>>)
  /\ jsAtLeast(state.duration, state.minPublisherDuration)
  /\ state.visits # << >> /\ state.visits = state.minPublisherVisits

\* variant: one visit more than the minimum is asked for (> for >=)
eligiblePMoreVisits(state) ==
  /\ jsGreater(state.score, <<0>>)
  /\ jsAtLeast(state.duration, state.minPublisherDuration)
  /\ jsGreater(state.visits, state.minPublisherVisits)

eligibleP(state) ==
  /\ jsGreater(state.score, <<0>>)
  /\ jsAtLeast(state.duration, state.minPublisherDuration)
  /\ jsAtLeast(state.visits, state.minPublisherVisits)

\* ledgerState.setSynopsisOption: a new state, the one given is left as it is
setSynopsisOption(state, key, value) == [state EXCEPT ![key] = value]

\* visibleP's local variable state where the function returns: with the
\* option written if it was unset
visiblePState(state) ==
  IF jsNullish(state.showOnlyVerified)
  THEN setSynopsisOption(state, "showOnlyVerified", state.allowNonVerified)
  ELSE state

\* variant: a publisher deleted by the user is not left out
visiblePDeleted(state) ==
  LET local == visiblePState(state)
      onlyVerified == ~jsTruthy(local.showOnlyVerified)
      eligibleByStats == eligibleP(local)
      verifiedPublisher == local.verified
  IN  eligibleByStats
        /\ ((onlyVerified /\ jsTruthy(verifiedPublisher)) \/ ~onlyVerified)

\* the boolean is all the function returns
visibleP(state) ==
  LET local == visiblePState(state)
      onlyVerified == ~jsTruthy(local.showOnlyVerified)
      deletedByUser == blockedP(local)
      eligibleByStats == eligibleP(local)
      verifiedPublisher == local.verified
  IN  (eligibleByStats
        /\ ((onlyVerified /\ jsTruthy(verifiedPublisher)) \/ ~onlyVerified))
      /\ ~deletedByUser

\* the value returned, a JavaScript value: result === undefined || result
stickyP(state) ==
  LET setting == state.ledgerPayments
      excluded == state.exclude
      result == IF jsNullish(setting) /\ ~jsNullish(excluded)
                THEN jsNot(excluded)
                ELSE setting
  IN  IF result = "undefined" THEN "true" ELSE result

\* variant: sticky and not excluded (&& for ||)
contributePStickyAndNotExcluded(state) ==
  /\ jsTruthy(stickyP(state)) /\ state.exclude # "true"
  /\ eligibleP(state)
  /\ ~blockedP(state)

contributeP(state) ==
  /\ (jsTruthy(stickyP(state)) \/ state.exclude # "true")
  /\ eligibleP(state)
  /\ ~blockedP(state)

----------------------------------------------------------------------------
(* ledgerUtil: the media functions.                                        *)
(*                                                                         *)
(* A string is the sequence of its characters.  A number is a record:     *)
(* NaN, or the decimal fraction n / per, per a power of ten, in lowest      *)
(* terms; a call that throws returns the record TypeError.  parseFloat     *)
(* keeps FractionDigits decimal places, and sums and products are exact:   *)
(* the rounding of IEEE doubles is not modelled.  parseInt's conversion of *)
(* its argument to a string is the decimal notation of the number, as it   *)
(* is between 1e-6 and 1e21.                                               *)

MaxSegments == 3      \* the longest list of segment times in a payload

FractionDigits == 4   \* the decimal places parseFloat keeps

RECURSIVE Pow10(_)
Pow10(n) == IF n = 0 THEN 1 ELSE 10 * Pow10(n - 1)

Scale == Pow10(FractionDigits)

jsNaN == [kind |-> "NaN", n |-> 0, per |-> 1]
TypeError == [kind |-> "TypeError", n |-> 0, per |-> 1]

\* n / per in lowest terms
RECURSIVE jsNumber(_, _)
jsNumber(n, per) ==
  IF per > 1 /\ n % 10 = 0 THEN jsNumber(n \div 10, per \div 10)
  ELSE [kind |-> "number", n |-> n, per |-> per]

jsInteger(n) == jsNumber(n, 1)

Larger(a, b) == IF a >= b THEN a ELSE b
Smaller(a, b) == IF a <= b THEN a ELSE b

jsMinus(a, b) ==
  IF a.kind = "NaN" \/ b.kind = "NaN" THEN jsNaN
  ELSE LET per == Larger(a.per, b.per)
       IN  jsNumber(a.n * (per \div a.per) - b.n * (per \div b.per), per)

jsPlus(a, b) ==
  IF a.kind = "NaN" \/ b.kind = "NaN" THEN jsNaN
  ELSE LET per == Larger(a.per, b.per)
       IN  jsNumber(a.n * (per \div a.per) + b.n * (per \div b.per), per)

\* a * k, k a power of ten
jsTimes(a, k) ==
  IF a.kind = "NaN" THEN jsNaN
  ELSE LET shared == Smaller(a.per, k)
       IN  jsNumber(a.n * (k \div shared), a.per \div shared)

\* the integer part, towards zero
Truncate(n, d) == IF n >= 0 THEN n \div d ELSE -((-n) \div d)

\* parseInt of a number: NaN stays NaN, the fraction is dropped
parseInt(x) ==
  IF x.kind = "NaN" THEN jsNaN ELSE jsInteger(Truncate(x.n, x.per))

Digits == <<"0", "1", "2", "3", "4", "5", "6", "7", "8", "9">>

IsDigit(c) == \E i \in 1..Len(Digits) : Digits[i] = c

DigitValue(c) == (CHOOSE i \in 1..Len(Digits) : Digits[i] = c) - 1

\* how many digits str starts with
LeadingDigits(str) ==
  CHOOSE k \in 0..Len(str) :
    /\ \A i \in 1..k : IsDigit(str[i])
    /\ k = Len(str) \/ ~IsDigit(str[k + 1])

\* the number the digits ds write
RECURSIVE DecimalValue(_)
DecimalValue(ds) ==
  IF ds = << >> THEN 0
  ELSE 10 * DecimalValue(SubSeq(ds, 1, Len(ds) - 1)) + DigitValue(ds[Len(ds)])

\* the units of the digits ds after the point, the first one worth unit
RECURSIVE DigitUnits(_, _)
DigitUnits(ds, unit) ==
  IF ds = << >> THEN 0
  ELSE DigitValue(ds[1]) * unit + DigitUnits(Tail(ds), unit \div 10)

\* parseFloat: the longest prefix that is a decimal literal (a sign, digits,
\* a point, digits), NaN when there is none
parseFloat(str) ==
  LET signed == str # << >> /\ str[1] \in {"-", "+"}
      body == IF signed THEN Tail(str) ELSE str
      whole == LeadingDigits(body)
      point == Len(body) > whole /\ body[whole + 1] = "."
      rest == IF point THEN SubSeq(body, whole + 2, Len(body)) ELSE << >>
      fraction == LeadingDigits(rest)
      units == DecimalValue(SubSeq(body, 1, whole)) * Scale
               + DigitUnits(SubSeq(rest, 1, fraction), Scale \div 10)
  IN  IF whole + fraction = 0 THEN jsNaN
      ELSE IF signed /\ str[1] = "-" THEN jsNumber(-units, Scale)
      ELSE jsNumber(units, Scale)

\* String.prototype.split(','): the empty string gives one empty entry
RECURSIVE split(_)
split(str) ==
  IF \A i \in 1..Len(str) : str[i] # "," THEN <<str>>
  ELSE LET i == CHOOSE k \in 1..Len(str) :
                  str[k] = "," /\ \A j \in 1..(k - 1) : str[j] # ","
       IN  <<SubSeq(str, 1, i - 1)>> \o split(SubSeq(str, i + 1, Len(str)))

\* the loop of getYouTubeDuration, from entry i on
RECURSIVE SumSegments(_, _, _)
SumSegments(startTime, endTime, i) ==
  IF i > Len(startTime) THEN jsInteger(0)
  ELSE jsPlus(jsMinus(parseFloat(endTime[i]), parseFloat(startTime[i])),
              SumSegments(startTime, endTime, i + 1))

\* variant: the seconds are not converted to milliseconds
getYouTubeDurationSeconds(data) ==
  IF data.data = "null" \/ jsNullish(data.st.kind) \/ jsNullish(data.et.kind)
  THEN jsInteger(0)
  ELSE IF data.st.kind # "string" \/ data.et.kind # "string" THEN TypeError
  ELSE LET startTime == split(data.st.chars)
           endTime == split(data.et.chars)
       IN  IF Len(startTime) # Len(endTime) THEN jsInteger(0)
           ELSE parseInt(SumSegments(startTime, endTime, 1))

\* data is null, or an object whose fields st and et are undefined, null, a
\* string or, for a parameter given twice in the query, an array
getYouTubeDuration(data) ==
  IF data.data = "null" \/ jsNullish(data.st.kind) \/ jsNullish(data.et.kind)
  THEN jsInteger(0)
  ELSE IF data.st.kind # "string" \/ data.et.kind # "string" THEN TypeError
  ELSE LET startTime == split(data.st.chars)
           endTime == split(data.et.chars)
       IN  IF Len(startTime) # Len(endTime) THEN jsInteger(0)
           ELSE parseInt(jsTimes(SumSegments(startTime, endTime, 1), 1000))

\* a string value, and the values null and undefined
jsString(chars) == [kind |-> "string", chars |-> chars]
jsNull == [kind |-> "null", chars |-> << >>]
jsUndefined == [kind |-> "undefined", chars |-> << >>]

\* ledgerMediaProviders.YOUTUBE
YOUTUBE == jsString(<<"y", "o", "u", "t", "u", "b", "e">>)

getMediaDuration(data, type) ==
  IF type = YOUTUBE THEN getYouTubeDuration(data) ELSE jsInteger(0)

\* String.prototype.toLowerCase, on the letters the model writes keys with
toLowerCase(str) == [i \in 1..Len(str) |-> IF str[i] = "A" THEN "a" ELSE str[i]]

\* variant: the provider's tag is used as it is written
getMediaKeyAsWritten(id, type) ==
  IF jsNullish(id.kind) \/ jsNullish(type.kind) THEN jsNull
  ELSE jsString(type.chars \o <<"_">> \o id.chars)

getMediaKey(id, type) ==
  IF jsNullish(id.kind) \/ jsNullish(type.kind) THEN jsNull
  ELSE jsString(toLowerCase(type.chars) \o <<"_">> \o id.chars)

----------------------------------------------------------------------------
(* ledgerUtil: walletStatus.  The wallet's amounts are whole numbers, as in *)
(* the scheduler; an amount that is not there is 0 (|| 0).                  *)

\* String(n), n a whole number
RECURSIVE ToChars(_)
ToChars(n) ==
  IF n < 10 THEN <<Digits[n + 1]>>
  ELSE ToChars(n \div 10) \o <<Digits[(n % 10) + 1]>>

\* Number.prototype.toFixed(2) of a whole number: a string
toFixed2(n) == ToChars(n) \o <<".", "0", "0">>

\* a string where a number is asked for: the number it writes
ToNumber(str) == parseFloat(str)

\* a < b, false when either is NaN
jsLessThan(a, b) ==
  /\ a.kind = "number" /\ b.kind = "number"
  /\ a.n * b.per < b.n * a.per

\* ledgerData: the flags error, created and creating, the number of
\* transactions, and the amounts unconfirmed, balance and bat
walletStatus(ledgerData) ==
  IF ledgerData.error THEN "statusOnError"
  ELSE IF ledgerData.created
  THEN LET pendingFunds == toFixed2(ledgerData.unconfirmed)
       IN  IF jsLessThan(ToNumber(pendingFunds \o ToChars(ledgerData.balance)),
                         jsNumber(9 * ledgerData.bat, 10))
           THEN "insufficientFundsStatus"
           ELSE IF jsLessThan(jsInteger(0), ToNumber(pendingFunds))
           THEN "pendingFundsStatus"
           ELSE IF ledgerData.transactions > 0
           THEN "defaultWalletStatus"
           ELSE "createdWalletStatus"
  ELSE IF ledgerData.creating THEN "creatingWalletStatus"
  ELSE "createWalletStatus"

----------------------------------------------------------------------------
(* TabPage (app/renderer/components/tabs/tabPage.js): the frames of a tab   *)
(* page.  A frame is its key and whether it is pinned.                      *)

\* frameStateUtil.getNonPinnedFrames: the frames that are not pinned, in
\* the window's order
RECURSIVE getNonPinnedFrames(_)
getNonPinnedFrames(frames) ==
  IF frames = << >> THEN << >>
  ELSE IF frames[1].pinned THEN getNonPinnedFrames(Tail(frames))
  ELSE <<frames[1]>> \o getNonPinnedFrames(Tail(frames))

\* Immutable.List.slice(begin, end): the entries at the indices
\* begin .. end - 1, from 0, as far as there are any
slice(list, begin, end) ==
  SubSeq(list, begin + 1, IF end <= Len(list) THEN end ELSE Len(list))

\* variant: the page is cut out of all the frames, the pinned ones too
mergePropsAllFrames(window, index) ==
  LET frames == window.frames
      tabsPerPage == window.tabsPerPage
      tabPageFrames ==
        slice(frames, index * tabsPerPage, (index * tabsPerPage) + tabsPerPage)
  IN  [index |-> index,
       tabPageFrames |-> tabPageFrames,
       isPageEmpty |-> tabPageFrames = << >>]

\* the props that say which frames the page has
mergeProps(window, index) ==
  LET frames == getNonPinnedFrames(window.frames)
      tabsPerPage == window.tabsPerPage
      tabPageFrames ==
        slice(frames, index * tabsPerPage, (index * tabsPerPage) + tabsPerPage)
  IN  [index |-> index,
       tabPageFrames |-> tabPageFrames,
       isPageEmpty |-> tabPageFrames = << >>]

----------------------------------------------------------------------------
(* The state machine *)

NoFiat == [amount |-> 0, currency |-> ""]

NoOp == [name |-> "none", timer |-> 0, message |-> textUndefined,
         buttonIndex |-> 0, activeWindow |-> FALSE, fiat |-> NoFiat]

InitScheduler(states, paymentsEnabled, start) ==
  /\ now = start
  /\ appState \in states
  /\ intervalTimeout = 0
  /\ timers = << >>
  /\ textPaymentDone = textUndefined
  /\ settings = [paymentsEnabled |-> paymentsEnabled, notificationsEnabled |-> TRUE,
                 reconcileSoonTimestamp |-> 0, addFundsTimestamp |-> 0,
                 tryPaymentsDismissed |-> FALSE]
  /\ hasBeenNotified = FALSE
  /\ notifications = {}
  /\ op = NoOp
  /\ calls = << >>
  /\ ticksAtNow = 0
  /\ coolDown = [reconciliation |-> 0, addFunds |-> 0]

\* no publisher, no predicate called
NoLedger ==
  [ledgerPayments |-> "undefined", ledgerPaymentsShown |-> "undefined",
   exclude |-> "undefined", score |-> << >>, duration |-> << >>,
   visits |-> << >>, minPublisherDuration |-> << >>,
   minPublisherVisits |-> << >>, verified |-> "undefined",
   showOnlyVerified |-> "undefined", allowNonVerified |-> "true"]

NoMedia == [data |-> "none"]

NoTabs == [frames |-> << >>, tabsPerPage |-> 0, nextKey |-> 0]

NoAnswer == [fn |-> "none", value |-> "undefined"]

InitWith(states, paymentsEnabled, start) ==
  /\ InitScheduler(states, paymentsEnabled, start)
  /\ ledger = NoLedger
  /\ media = NoMedia
  /\ tabs = NoTabs
  /\ answer = NoAnswer

Shows(cs, key) ==
  \E i \in 1..Len(cs) : cs[i].fn = "showNotification" /\ cs[i].key = key

Apply(w) ==
  /\ settings' = w.settings
  /\ notifications' = w.notifications
  /\ hasBeenNotified' = w.hasBeenNotified
  /\ calls' = w.calls
  /\ coolDown' =
       [reconciliation |->
          IF Shows(w.calls, "reconciliation")
          THEN Max(coolDown.reconciliation, w.settings.reconcileSoonTimestamp)
          ELSE coolDown.reconciliation,
        addFunds |->
          IF Shows(w.calls, "addFunds")
          THEN Max(coolDown.addFunds, w.settings.addFundsTimestamp)
          ELSE coolDown.addFunds]

\* clearInterval: the timer with that handle, if live, is no longer
clearInterval(ts, handle) ==
  [t \in DOMAIN ts \ {handle} |-> ts[t]]

\* setInterval(callback, pollingInterval, state): the timer is live under a
\* fresh handle, and keeps the state it was given
setInterval(ts, handle, state) ==
  [t \in DOMAIN ts \cup {handle} |->
     IF t = handle THEN [remaining |-> pollingInterval, state |-> state] ELSE ts[t]]

FreshHandle(ts) ==
  CHOOSE h \in 1..MaxTimers :
    /\ h \notin DOMAIN ts
    /\ \A g \in 1..MaxTimers : g \notin DOMAIN ts => h <= g

\* variant: init does not cancel the timer it replaces
initClearNothing(ts, handle) == ts

\* init, up to its setInterval: the timers left live
initClear(ts, handle) ==
  IF handle # 0 THEN clearInterval(ts, handle) ELSE ts

init ==
  LET cleared == initClear(timers, intervalTimeout)
  IN  /\ \E h \in 1..MaxTimers : h \notin DOMAIN cleared
      /\ intervalTimeout' = FreshHandle(cleared)
      /\ timers' = setInterval(cleared, FreshHandle(cleared), appState)
      /\ op' = [NoOp EXCEPT !.name = "init", !.timer = intervalTimeout]
      /\ calls' = << >>
      /\ UNCHANGED <<now, appState, textPaymentDone, settings, hasBeenNotified,
                     notifications, ticksAtNow, coolDown>>
      /\ UNCHANGED ledgerVars

\* the timer t fires: its callback runs onInterval on the state given to init
Interval(t) ==
  /\ t \in DOMAIN timers
  /\ timers[t].remaining = 0
  /\ timers' = [timers EXCEPT ![t].remaining = pollingInterval]
  /\ Apply(onInterval(World, timers[t].state))
  /\ op' = [NoOp EXCEPT !.name = "onInterval", !.timer = t]
  /\ ticksAtNow' = ticksAtNow + 1
  /\ UNCHANGED <<now, appState, intervalTimeout, textPaymentDone>>
  /\ UNCHANGED ledgerVars

Launch ==
  /\ Apply(onLaunch(World, appState))
  /\ op' = [NoOp EXCEPT !.name = "onLaunch"]
  /\ UNCHANGED <<now, appState, intervalTimeout, timers, textPaymentDone, ticksAtNow>>
  /\ UNCHANGED ledgerVars

\* ipc NOTIFICATION_RESPONSE: the user pressed a button of an outstanding message
Response(message, buttonIndex, activeWindow) ==
  /\ message \in notifications
  /\ Apply(onResponse(World, message, buttonIndex, activeWindow))
  /\ op' = [NoOp EXCEPT !.name = "onResponse", !.message = message,
                        !.buttonIndex = buttonIndex, !.activeWindow = activeWindow]
  /\ UNCHANGED <<now, appState, intervalTimeout, timers, textPaymentDone, ticksAtNow>>
  /\ UNCHANGED ledgerVars

\* observeTransactions saw a new payment
NewTransaction(fiat) ==
  /\ textPaymentDone' = PaymentDoneText(fiat)
  /\ Apply(showPaymentDone(World, PaymentDoneText(fiat)))
  /\ op' = [NoOp EXCEPT !.name = "showPaymentDone", !.fiat = fiat]
  /\ UNCHANGED <<now, appState, intervalTimeout, timers, ticksAtNow>>
  /\ UNCHANGED ledgerVars

\* the user switches a setting in the preferences
UserSetting(key, value) ==
  /\ settings[key] # value
  /\ settings' = [settings EXCEPT ![key] = value]
  /\ op' = [NoOp EXCEPT !.name = "userSetting"]
  /\ calls' = << >>
  /\ UNCHANGED <<now, appState, intervalTimeout, timers, textPaymentDone,
                 hasBeenNotified, notifications, ticksAtNow, coolDown>>
  /\ UNCHANGED ledgerVars

\* the ledger updates the wallet in the application state; the scheduler is
\* not told
WalletChange(state) ==
  /\ state # appState
  /\ appState' = state
  /\ op' = [NoOp EXCEPT !.name = "walletChange"]
  /\ calls' = << >>
  /\ UNCHANGED <<now, intervalTimeout, timers, textPaymentDone, settings,
                 hasBeenNotified, notifications, ticksAtNow, coolDown>>
  /\ UNCHANGED ledgerVars

\* a polling interval passes
Advance(limit) ==
  /\ now < limit
  /\ now' = now + pollingInterval
  /\ timers' = [t \in DOMAIN timers |->
                  [timers[t] EXCEPT !.remaining = Max(0, @ - pollingInterval)]]
  /\ ticksAtNow' = 0
  /\ op' = [NoOp EXCEPT !.name = "clock"]
  /\ calls' = << >>
  /\ UNCHANGED <<appState, intervalTimeout, textPaymentDone, settings,
                 hasBeenNotified, notifications, coolDown>>
  /\ UNCHANGED ledgerVars

Respond == \E m \in Messages, b \in 0..2, a \in BOOLEAN : Response(m, b, a)

Tick == \E t \in 1..MaxTimers : Interval(t)

----------------------------------------------------------------------------
(* The polling loop: a profile's timer, its ticks, the user's answers and  *)
(* switches, over every wallet of PollingStates                            *)

Init == InitWith(PollingStates, FALSE, 1)

Next ==
  \/ init
  \/ Tick
  \/ Respond
  \/ \E k \in {"paymentsEnabled", "notificationsEnabled"}, v \in BOOLEAN : UserSetting(k, v)
  \/ Advance(MaxNow)

Spec == Init /\ [][Next]_vars

----------------------------------------------------------------------------
(* The events: launch and new transactions as well, for a profile older    *)
(* than the try-payments delay and less than a day from reconciliation     *)

EventStates ==
  AppStates({90}, {0, 10}, {100}, {3 * day}, {3}, {1}, {FALSE}, {TRUE})

EventStart == 1 + delayNotificationTryPayments

InitEvents == InitWith(EventStates, FALSE, EventStart)

NextEvents ==
  \/ init
  \/ Tick
  \/ Respond
  \/ Launch
  \/ \E fiat \in Fiats : NewTransaction(fiat)
  \/ \E v \in BOOLEAN : UserSetting("paymentsEnabled", v)
  \/ Advance(EventStart + MaxEventIntervals)

SpecEvents == InitEvents /\ [][NextEvents]_vars

----------------------------------------------------------------------------
(* The wallet changes under the timer: payments on, and wallets with the   *)
(* reconcile stamp absent, less than a day ahead of the first tick, and    *)
(* four days ahead of it                                                   *)

NearStamp == 1 + day
FarStamp == 1 + 4 * day

WalletStates ==
  AppStates({0, 100}, {0}, {100}, {0, NearStamp, FarStamp}, {2}, {1}, {FALSE}, {TRUE})

InitWallet == InitWith(WalletStates, TRUE, 1)

NextWallet ==
  \/ init
  \/ Tick
  \/ \E state \in WalletStates : WalletChange(state)
  \/ Advance(1 + MaxWalletIntervals)

SpecWallet == InitWallet /\ [][NextWallet]_vars

----------------------------------------------------------------------------
(* The launches of a profile: wallets with and without funds, new and old  *)
(* installs, upgraded and not, and the user's switches                     *)

LaunchStates ==
  AppStates({0, 90}, {0}, {100}, {3 * day}, {3}, {1}, BOOLEAN, BOOLEAN)

InitLaunch == InitWith(LaunchStates, FALSE, 1)

NextLaunch ==
  \/ Launch
  \/ Respond
  \/ \E k \in {"paymentsEnabled", "notificationsEnabled"}, v \in BOOLEAN : UserSetting(k, v)
  \/ init
  \/ Tick
  \/ Advance(1 + MaxEventIntervals)

SpecLaunch == InitLaunch /\ [][NextLaunch]_vars

----------------------------------------------------------------------------
(* The publisher predicates, called on every state of LedgerStates         *)

Answer(fn, value) ==
  /\ answer' = [fn |-> fn, value |-> value]
  /\ UNCHANGED <<ledger, media, tabs>>
  /\ UNCHANGED schedulerVars

CallBlockedP == Answer("blockedP", jsBoolean(blockedP(ledger)))
CallEligibleP == Answer("eligibleP", jsBoolean(eligibleP(ledger)))
CallStickyP == Answer("stickyP", stickyP(ledger))
CallContributeP == Answer("contributeP", jsBoolean(contributeP(ledger)))

InitLedger ==
  /\ InitScheduler(EventStates, FALSE, 1)
  /\ appState.unconfirmed = 0
  /\ ledger \in LedgerStates
  /\ media = NoMedia
  /\ tabs = NoTabs
  /\ answer = NoAnswer

NextLedger ==
  \/ CallBlockedP
  \/ CallEligibleP
  \/ CallStickyP
  \/ CallContributeP

SpecLedger == InitLedger /\ [][NextLedger]_vars

----------------------------------------------------------------------------
(* visibleP, called on every state of VisibleStates.  The caller keeps the *)
(* state it passed: visibleP returns a boolean.                            *)

CallVisibleP == Answer("visibleP", jsBoolean(visibleP(ledger)))

InitVisible ==
  /\ InitScheduler(EventStates, FALSE, 1)
  /\ appState.unconfirmed = 0
  /\ ledger \in VisibleStates
  /\ media = NoMedia
  /\ tabs = NoTabs
  /\ answer = NoAnswer

NextVisible ==
  \/ CallVisibleP
  \/ CallEligibleP
  \/ CallBlockedP

SpecVisible == InitVisible /\ [][NextVisible]_vars

----------------------------------------------------------------------------
(* The media functions, called on payloads of up to MaxSegments start and  *)
(* end times.  A payload is kept with the entries it was written from,     *)
(* each with the number it stands for in 1/10000 s: the functions read the *)
(* strings only.                                                           *)

Entry(chars, numeric, tenths) ==
  [chars |-> chars, numeric |-> numeric, tenths |-> tenths]

entry11338 == Entry(<<"1", "1", ".", "3", "3", "8">>, TRUE, 113380)
entry21339 == Entry(<<"2", "1", ".", "3", "3", "9">>, TRUE, 213390)
entry25000 == Entry(<<"2", "5", ".", "0", "0", "0">>, TRUE, 250000)
entry26100 == Entry(<<"2", "6", ".", "1", "0", "0">>, TRUE, 261000)
entryHalfMs == Entry(<<"0", ".", "0", "0", "0", "5">>, TRUE, 5)
entryEmpty == Entry(<< >>, FALSE, 0)

StartEntries == {entry11338, entry21339, entry25000}
EndEntries == {entry21339, entry25000, entry26100, entryHalfMs}

Lists(entries) == UNION {[1..k -> entries] : k \in 1..MaxSegments}

\* Array.prototype.join(',') of the entries' strings
RECURSIVE Join(_)
Join(list) ==
  IF Len(list) = 1 THEN list[1].chars
  ELSE list[1].chars \o <<",">> \o Join(Tail(list))

Field(kind, list) ==
  [kind |-> kind, chars |-> IF list = << >> THEN << >> ELSE Join(list),
   list |-> list]

\* a field that is not there, one without a value ("st"), one given twice
\* ("st=1&st=2"), an empty one ("st="), and the lists
Fields(entries) ==
  {Field(kind, << >>) : kind \in {"undefined", "null", "array"}}
    \cup {Field("string", <<entryEmpty>>)}
    \cup {Field("string", list) : list \in Lists(entries)}

MediaStates ==
  {[data |-> "null", st |-> Field("undefined", << >>),
    et |-> Field("undefined", << >>)]}
    \cup [data : {"object"}, st : Fields(StartEntries), et : Fields(EndEntries)]

\* the provider of a watch-time request, none, and one that is not known
Providers == {YOUTUBE, jsNull, jsString(<<"t", "e", "s", "t">>)}

MediaAnswer(fn, type, value) ==
  /\ answer' = [fn |-> fn, type |-> type, value |-> value]
  /\ UNCHANGED <<ledger, media, tabs>>
  /\ UNCHANGED schedulerVars

CallGetYouTubeDuration ==
  MediaAnswer("getYouTubeDuration", YOUTUBE, getYouTubeDuration(media))

CallGetMediaDuration(type) ==
  MediaAnswer("getMediaDuration", type, getMediaDuration(media, type))

InitMedia ==
  /\ InitScheduler(EventStates, FALSE, 1)
  /\ appState.unconfirmed = 0
  /\ ledger = NoLedger
  /\ media \in MediaStates
  /\ tabs = NoTabs
  /\ answer = NoAnswer

NextMedia ==
  \/ CallGetYouTubeDuration
  \/ \E type \in Providers : CallGetMediaDuration(type)

SpecMedia == InitMedia /\ [][NextMedia]_vars

----------------------------------------------------------------------------
(* getMediaKey, called on every id and provider tag of up to MaxKeyLength  *)
(* characters, missing ones included.                                      *)

MaxKeyLength == 2

KeyChars == {"a", "A", "_"}

KeyStrings ==
  {jsString(chars) : chars \in UNION {[1..k -> KeyChars] : k \in 0..MaxKeyLength}}

MediaIds == {jsNull, jsUndefined} \cup KeyStrings

MediaTypes == {jsNull, jsUndefined, YOUTUBE} \cup KeyStrings

CallGetMediaKey ==
  MediaAnswer("getMediaKey", media.type, getMediaKey(media.id, media.type))

InitMediaKey ==
  /\ InitScheduler(EventStates, FALSE, 1)
  /\ appState.unconfirmed = 0
  /\ ledger = NoLedger
  /\ media \in [data : {"key"}, id : MediaIds, type : MediaTypes]
  /\ tabs = NoTabs
  /\ answer = NoAnswer

NextMediaKey == CallGetMediaKey

SpecMediaKey == InitMediaKey /\ [][NextMediaKey]_vars

----------------------------------------------------------------------------
(* eligibleP on a publisher whose visits and duration grow between the     *)
(* calls, the score and the thresholds staying as they are.                *)

VisitStates ==
  [ledgerPayments : {"undefined"},
   ledgerPaymentsShown : {"undefined"},
   exclude : {"undefined"},
   score : jsNumbers(0..1),
   duration : jsNumbers(0..MaxCount),
   visits : jsNumbers(0..MaxCount),
   minPublisherDuration : jsNumbers(1..MaxCount),
   minPublisherVisits : jsNumbers(1..MaxCount),
   verified : {"undefined"},
   showOnlyVerified : {"undefined"},
   allowNonVerified : {"true"}]

\* the publisher is visited: more visits, a longer duration, or both
Visit(visits, duration) ==
  /\ ledger.visits # << >> /\ ledger.duration # << >>
  /\ visits >= ledger.visits[1] /\ duration >= ledger.duration[1]
  /\ visits > ledger.visits[1] \/ duration > ledger.duration[1]
  /\ ledger' = [ledger EXCEPT !.visits = <<visits>>, !.duration = <<duration>>]
  /\ UNCHANGED <<media, tabs, answer>>
  /\ UNCHANGED schedulerVars

\* the call, kept with the counts it was made on and with whether it follows
\* a call that found the publisher eligible on other, smaller, counts
CallEligiblePOnCounts ==
  /\ answer' = [fn |-> "eligibleP", value |-> jsBoolean(eligibleP(ledger)),
                visits |-> ledger.visits, duration |-> ledger.duration,
                again |-> IF answer.fn = "eligibleP"
                          THEN /\ answer.value = "true"
                               /\ <<answer.visits, answer.duration>>
                                    # <<ledger.visits, ledger.duration>>
                          ELSE FALSE]
  /\ UNCHANGED <<ledger, media, tabs>>
  /\ UNCHANGED schedulerVars

InitVisits ==
  /\ InitScheduler(EventStates, FALSE, 1)
  /\ appState.unconfirmed = 0
  /\ ledger \in VisitStates
  /\ media = NoMedia
  /\ tabs = NoTabs
  /\ answer = NoAnswer

NextVisits ==
  \/ CallEligiblePOnCounts
  \/ \E visits, duration \in 0..MaxCount : Visit(visits, duration)

SpecVisits == InitVisits /\ [][NextVisits]_vars

----------------------------------------------------------------------------
(* The tab pages of a window in which tabs are opened, closed, pinned and  *)
(* unpinned and the tabs-per-page setting is changed; the props of a page  *)
(* are computed anew after every change.                                   *)

MaxFrames == 5            \* the frames ever opened in the window

DefaultTabsPerPage == 3   \* appConfig.defaultSettings[TABS_PER_PAGE], scaled

TabsPerPageOptions == {DefaultTabsPerPage - 1, DefaultTabsPerPage}

PageIndexes == 0..(MaxFrames \div (DefaultTabsPerPage - 1))

Changed(window) ==
  /\ tabs' = window
  /\ answer' = NoAnswer
  /\ UNCHANGED <<ledger, media>>
  /\ UNCHANGED schedulerVars

NewTab(pinned) ==
  /\ tabs.nextKey <= MaxFrames
  /\ Changed([tabs EXCEPT
       !.frames = Append(@, [key |-> tabs.nextKey, pinned |-> pinned]),
       !.nextKey = @ + 1])

CloseTab(position) ==
  /\ position \in 1..Len(tabs.frames)
  /\ Changed([tabs EXCEPT
       !.frames = SubSeq(@, 1, position - 1) \o SubSeq(@, position + 1, Len(@))])

\* the tab is pinned, or unpinned
TabPinned(position, pinned) ==
  /\ position \in 1..Len(tabs.frames)
  /\ tabs.frames[position].pinned # pinned
  /\ Changed([tabs EXCEPT !.frames[position].pinned = pinned])

ChangeTabsPerPage(tabsPerPage) ==
  /\ tabsPerPage # tabs.tabsPerPage
  /\ Changed([tabs EXCEPT !.tabsPerPage = tabsPerPage])

CallMergeProps(index) ==
  /\ answer' = [fn |-> "mergeProps", value |-> mergeProps(tabs, index)]
  /\ UNCHANGED <<ledger, media, tabs>>
  /\ UNCHANGED schedulerVars

InitTabs ==
  /\ InitScheduler(EventStates, FALSE, 1)
  /\ appState.unconfirmed = 0
  /\ ledger = NoLedger
  /\ media = NoMedia
  /\ tabs = [frames |-> <<[key |-> 1, pinned |-> FALSE]>>,
             tabsPerPage |-> DefaultTabsPerPage, nextKey |-> 2]
  /\ answer = NoAnswer

NextTabs ==
  \/ \E pinned \in BOOLEAN : NewTab(pinned)
  \/ \E position \in 1..MaxFrames : CloseTab(position)
  \/ \E position \in 1..MaxFrames, pinned \in BOOLEAN : TabPinned(position, pinned)
  \/ \E tabsPerPage \in TabsPerPageOptions : ChangeTabsPerPage(tabsPerPage)
  \/ \E index \in PageIndexes : CallMergeProps(index)

SpecTabs == InitTabs /\ [][NextTabs]_vars

----------------------------------------------------------------------------
(* walletStatus, called on wallets on each side of, and on, the 90% line,  *)
(* with and without a contribution target, in every stage of creation.     *)

StatusStates ==
  AppStates({0, 80, 90, 100}, {0, 10, 90}, {0, 100}, {0}, {3}, {1}, {FALSE}, {TRUE})

\* the ledger data of the wallet the scheduler reads
LedgerData(error, created, creating, transactions) ==
  [error |-> error, created |-> created, creating |-> creating,
   transactions |-> transactions,
   unconfirmed |-> appState.unconfirmed, balance |-> appState.balance,
   bat |-> appState.bat]

CallWalletStatus(ledgerData) ==
  /\ answer' = [fn |-> "walletStatus", value |-> walletStatus(ledgerData),
                data |-> ledgerData]
  /\ UNCHANGED <<ledger, media, tabs>>
  /\ UNCHANGED schedulerVars

InitStatus ==
  /\ InitScheduler(StatusStates, TRUE, 1)
  /\ ledger = NoLedger
  /\ media = NoMedia
  /\ tabs = NoTabs
  /\ answer = NoAnswer

NextStatus ==
  \E error, created, creating \in BOOLEAN, transactions \in 0..1 :
    CallWalletStatus(LedgerData(error, created, creating, transactions))

SpecStatus == InitStatus /\ [][NextStatus]_vars

----------------------------------------------------------------------------
(* The vocabulary of the properties *)

\* the step is a tick, and the state its callback was given
TickStep == op'.name = "onInterval"
TickState == timers[op'.timer].state

ShowCalls(cs) == SelectSeq(cs, LAMBDA c : c.fn = "showNotification")
EmitsOnly(cs, key) == Len(ShowCalls(cs)) = 1 /\ ShowCalls(cs)[1].key = key
EmitsNothing(cs) == Len(ShowCalls(cs)) = 0

\* the specification's words: funds are sufficient at 90% of the target and above
FundsSufficient(state) ==
  state.bat # 0 /\ 10 * (state.balance + state.unconfirmed) >= 9 * state.bat
FundsInsufficient(state) ==
  10 * (state.balance + state.unconfirmed) < 9 * state.bat

Enabled == settings.paymentsEnabled /\ settings.notificationsEnabled
Remaining(state) == state.reconcileStamp - now

\* the state of the last tick, seen from the state after it
LastTickState == timers[op.timer].state

----------------------------------------------------------------------------
(* C1: a tick with payments and notifications on, a reconcile stamp less    *)
(* than a day ahead, funds sufficient and no review snooze timestamp in the *)
(* future emits exactly one request, ReviewPublishers, and stores           *)
(* reconcileStamp + (reconcileFrequency - 2) days as the review snooze.     *)
C1_ReviewWithinADay ==
  [][ ( /\ TickStep
        /\ Enabled
        /\ TickState.reconcileStamp # 0
        /\ Remaining(TickState) < day
        /\ FundsSufficient(TickState)
        /\ ~(settings.reconcileSoonTimestamp > now) )
      => /\ EmitsOnly(calls', "reconciliation")
         /\ settings'.reconcileSoonTimestamp =
              TickState.reconcileStamp + (TickState.reconcileFrequency - 2) * day
    ]_vars

(* C1 away from the 90% line and with the snooze over only after its        *)
(* timestamp: that much of the claim the code keeps.                        *)
C1_ReviewWithinADayAbove90 ==
  [][ ( /\ TickStep
        /\ Enabled
        /\ TickState.reconcileStamp # 0
        /\ Remaining(TickState) < day
        /\ FundsSufficient(TickState)
        /\ 10 * (TickState.balance + TickState.unconfirmed) # 9 * TickState.bat
        /\ ~(settings.reconcileSoonTimestamp >= now) )
      => /\ EmitsOnly(calls', "reconciliation")
         /\ settings'.reconcileSoonTimestamp =
              TickState.reconcileStamp + (TickState.reconcileFrequency - 2) * day
    ]_vars

----------------------------------------------------------------------------
(* C2, as stated: a tick with payments and notifications on, a reconcile    *)
(* stamp less than a day ahead, funds insufficient and no add-funds snooze  *)
(* timestamp in the future emits exactly one request, AddFunds, and stores  *)
(* now + 3 days as the add-funds snooze.                                    *)
C2_AddFundsWithinADay_AsStated ==
  [][ ( /\ TickStep
        /\ Enabled
        /\ TickState.reconcileStamp # 0
        /\ Remaining(TickState) < day
        /\ FundsInsufficient(TickState)
        /\ ~(settings.addFundsTimestamp > now) )
      => /\ EmitsOnly(calls', "addFunds")
         /\ settings'.addFundsTimestamp = now + 3 * day
    ]_vars

(* C2, amended: the same with no add-funds snooze timestamp at or after the *)
(* current time: the snooze is over only once the clock has passed it.      *)
C2_AddFundsWithinADay ==
  [][ ( /\ TickStep
        /\ Enabled
        /\ TickState.reconcileStamp # 0
        /\ Remaining(TickState) < day
        /\ FundsInsufficient(TickState)
        /\ ~(settings.addFundsTimestamp >= now) )
      => /\ EmitsOnly(calls', "addFunds")
         /\ settings'.addFundsTimestamp = now + 3 * day
    ]_vars

\* a tick has shown AddFunds a second time, the first snooze over
C2_Witness ==
  /\ op.name = "onInterval"
  /\ Enabled
  /\ LastTickState.reconcileStamp # 0
  /\ Remaining(LastTickState) < day
  /\ FundsInsufficient(LastTickState)
  /\ EmitsOnly(calls, "addFunds")
  /\ settings.addFundsTimestamp = now + 3 * day
  /\ now > 1 + 3 * day

----------------------------------------------------------------------------
(* C9: a tick with payments and notifications on and the reconcile stamp    *)
(* at least one and less than two days ahead emits exactly one request,     *)
(* ReviewPublishers, with review snooze now + 1 day, if funds are           *)
(* sufficient and the review notification is eligible (its snooze timestamp *)
(* absent or passed); otherwise it emits nothing.  It never emits AddFunds. *)
C9_ReviewWithinTwoDays ==
  [][ ( /\ TickStep
        /\ Enabled
        /\ TickState.reconcileStamp # 0
        /\ Remaining(TickState) >= day
        /\ Remaining(TickState) < 2 * day )
      => IF /\ FundsSufficient(TickState)
            /\ (settings.reconcileSoonTimestamp = 0 \/ now > settings.reconcileSoonTimestamp)
         THEN /\ EmitsOnly(calls', "reconciliation")
              /\ settings'.reconcileSoonTimestamp = now + day
         ELSE EmitsNothing(calls')
    ]_vars

(* C9 with the funds off the 90% line: that much of the claim the code keeps *)
C9_ReviewWithinTwoDaysOff90 ==
  [][ ( /\ TickStep
        /\ Enabled
        /\ TickState.reconcileStamp # 0
        /\ Remaining(TickState) >= day
        /\ Remaining(TickState) < 2 * day
        /\ 10 * (TickState.balance + TickState.unconfirmed) # 9 * TickState.bat )
      => IF /\ FundsSufficient(TickState)
            /\ (settings.reconcileSoonTimestamp = 0 \/ now > settings.reconcileSoonTimestamp)
         THEN /\ EmitsOnly(calls', "reconciliation")
              /\ settings'.reconcileSoonTimestamp = now + day
         ELSE EmitsNothing(calls')
    ]_vars

----------------------------------------------------------------------------
(* C10: funds are sufficient from 90% of the target up, the line included:  *)
(* a tick less than a day before reconciliation, with balance + unconfirmed *)
(* exactly 0.9 of the target, takes the ReviewPublishers branch: it does    *)
(* not emit AddFunds, and emits ReviewPublishers if that one is eligible.   *)
C10_SufficientAt90 ==
  [][ ( /\ TickStep
        /\ Enabled
        /\ TickState.reconcileStamp # 0
        /\ Remaining(TickState) < day
        /\ TickState.bat # 0
        /\ 10 * (TickState.balance + TickState.unconfirmed) = 9 * TickState.bat )
      => /\ ~Shows(calls', "addFunds")
         /\ (settings.reconcileSoonTimestamp = 0 \/ now > settings.reconcileSoonTimestamp)
              => EmitsOnly(calls', "reconciliation")
    ]_vars

----------------------------------------------------------------------------
(* C3: no notification comes twice within its own cool-down.  coolDown      *)
(* holds, for AddFunds and for ReviewPublishers, the latest instant that    *)
(* the ticks which emitted it so far stored as its snooze (0: none has      *)
(* been emitted); a tick at a time not after it does not emit that kind.    *)
C3_NoRepeatWithinCoolDown ==
  [][ TickStep =>
        /\ Shows(calls', "addFunds") => now > coolDown.addFunds
        /\ Shows(calls', "reconciliation") => now > coolDown.reconciliation
    ]_vars

\* a tick at the very instant the add-funds snooze runs to, everything else
\* asking for AddFunds, has emitted nothing
C3_Witness ==
  /\ op.name = "onInterval"
  /\ Enabled
  /\ LastTickState.reconcileStamp # 0
  /\ Remaining(LastTickState) < day
  /\ FundsInsufficient(LastTickState)
  /\ coolDown.addFunds = now
  /\ EmitsNothing(calls)

----------------------------------------------------------------------------
(* C4: however often init has run, one timer is live and it is the one the  *)
(* module holds the handle of (none before the first init), so the tick     *)
(* handler fires at most once in a polling interval.                        *)
C4_OneLiveTimer ==
  /\ intervalTimeout = 0 => DOMAIN timers = {}
  /\ intervalTimeout # 0 => DOMAIN timers = {intervalTimeout}
  /\ ticksAtNow <= 1

\* init has run again, on a live timer, before any tick
C4_Witness ==
  /\ op.name = "init"
  /\ op.timer # 0
  /\ now = 1
  /\ Cardinality(DOMAIN timers) = 1

----------------------------------------------------------------------------
(* C5: every response to TryPayments, whatever the button and with or       *)
(* without an active window, records the dismissal; once recorded it stays, *)
(* and no step emits TryPayments again.                                     *)
C5_TryPaymentsDismissedForGood ==
  [][ /\ (op'.name = "onResponse" /\ op'.message = textTryPayments)
           => settings'.tryPaymentsDismissed
      /\ settings.tryPaymentsDismissed
           => settings'.tryPaymentsDismissed /\ ~Shows(calls', "tryPayments")
    ]_vars

\* payments off and the grace delay over, a tick after the dismissal is silent
C5_Witness ==
  /\ op.name = "onInterval"
  /\ ~settings.paymentsEnabled
  /\ settings.tryPaymentsDismissed
  /\ now - LastTickState.firstRunTimestamp >= delayNotificationTryPayments
  /\ EmitsNothing(calls)

----------------------------------------------------------------------------
(* C6: a tick emits TryPayments if and only if payments are off, the        *)
(* notification has not been dismissed and the time since the first run is  *)
(* at least the grace delay.                                                *)
C6_TryPaymentsIff ==
  [][ TickStep =>
        ( Shows(calls', "tryPayments")
          <=> /\ ~settings.paymentsEnabled
              /\ ~settings.tryPaymentsDismissed
              /\ now - TickState.firstRunTimestamp >= delayNotificationTryPayments )
    ]_vars

\* a tick exactly at the end of the grace delay has emitted TryPayments
C6_Witness ==
  /\ op.name = "onInterval"
  /\ EmitsOnly(calls, "tryPayments")
  /\ now - LastTickState.firstRunTimestamp = delayNotificationTryPayments

----------------------------------------------------------------------------
(* C7: every response to an outstanding notification of the scheduler ends  *)
(* with the request to hide that very message.                              *)
C7_EveryResponseHides ==
  [][ op'.name = "onResponse" =>
        /\ Len(calls') > 0
        /\ calls'[Len(calls')] = CallMessage("hideNotification", op'.message)
    ]_vars

----------------------------------------------------------------------------
(* C8: button 0 of AddFunds, ReviewPublishers or PaymentDone turns the      *)
(* notifications off; while payments are on and notifications off, a tick   *)
(* emits nothing and leaves both snooze timestamps as they are.             *)
C8_TurnOffSilencesTicks ==
  [][ /\ ( /\ op'.name = "onResponse"
           /\ op'.buttonIndex = 0
           /\ op'.message.key \in {"addFunds", "reconciliation", "paymentDone"} )
           => ~settings'.notificationsEnabled
      /\ (TickStep /\ settings.paymentsEnabled /\ ~settings.notificationsEnabled)
           => /\ EmitsNothing(calls')
              /\ settings'.reconcileSoonTimestamp = settings.reconcileSoonTimestamp
              /\ settings'.addFundsTimestamp = settings.addFundsTimestamp
    ]_vars

(* C8 for the messages the handler still knows: AddFunds, ReviewPublishers  *)
(* and the PaymentDone of the latest transaction.  That much the code keeps. *)
C8_TurnOffSilencesTicksLatest ==
  [][ /\ ( /\ op'.name = "onResponse"
           /\ op'.buttonIndex = 0
           /\ op'.message \in {textAddFunds, textReconciliation, textPaymentDone} )
           => ~settings'.notificationsEnabled
      /\ (TickStep /\ settings.paymentsEnabled /\ ~settings.notificationsEnabled)
           => /\ EmitsNothing(calls')
              /\ settings'.reconcileSoonTimestamp = settings.reconcileSoonTimestamp
              /\ settings'.addFundsTimestamp = settings.addFundsTimestamp
    ]_vars

----------------------------------------------------------------------------
(* C11: with no contribution target in the wallet (bat absent), a tick with *)
(* payments and notifications on applies no rule: it emits nothing and      *)
(* leaves both snooze timestamps as they are, whatever the time remaining   *)
(* to reconciliation, less than a day included.                             *)
C11_NoTargetNoRule ==
  [][ (TickStep /\ Enabled /\ TickState.bat = 0)
      => /\ EmitsNothing(calls')
         /\ settings'.reconcileSoonTimestamp = settings.reconcileSoonTimestamp
         /\ settings'.addFundsTimestamp = settings.addFundsTimestamp
    ]_vars

(* C11 from a day before reconciliation on: that much of the claim the code *)
(* keeps.  Less than a day before, no target counts as funds insufficient.  *)
C11_NoTargetNoRuleFromADay ==
  [][ ( /\ TickStep
        /\ Enabled
        /\ TickState.bat = 0
        /\ (TickState.reconcileStamp = 0 \/ Remaining(TickState) >= day) )
      => /\ EmitsNothing(calls')
         /\ settings'.reconcileSoonTimestamp = settings.reconcileSoonTimestamp
         /\ settings'.addFundsTimestamp = settings.addFundsTimestamp
    ]_vars

----------------------------------------------------------------------------
(* C12: a tick with payments and notifications on emits nothing and leaves  *)
(* both snooze timestamps as they are whenever the reconcile stamp is       *)
(* absent or at least two days ahead, whatever the balance and the snoozes. *)
C12_NoRuleFromTwoDays ==
  [][ ( /\ TickStep
        /\ Enabled
        /\ (TickState.reconcileStamp = 0 \/ Remaining(TickState) >= 2 * day) )
      => /\ EmitsNothing(calls')
         /\ settings'.reconcileSoonTimestamp = settings.reconcileSoonTimestamp
         /\ settings'.addFundsTimestamp = settings.addFundsTimestamp
    ]_vars

\* a tick two days or more before reconciliation, funds sufficient and an
\* earlier review snooze over, has emitted nothing
C12_Witness ==
  /\ op.name = "onInterval"
  /\ Enabled
  /\ LastTickState.reconcileStamp # 0
  /\ Remaining(LastTickState) >= 2 * day
  /\ FundsSufficient(LastTickState)
  /\ settings.reconcileSoonTimestamp # 0
  /\ now > settings.reconcileSoonTimestamp
  /\ EmitsNothing(calls)

----------------------------------------------------------------------------
(* C16: a tick decides from the wallet as it is at the time of the tick:    *)
(* what it emits and what it stores is what the window rules give on the    *)
(* current application state, also when the wallet has changed since init.  *)
C16_TickReadsCurrentWallet ==
  [][ TickStep =>
        /\ calls' = onInterval(World, appState).calls
        /\ settings' = onInterval(World, appState).settings
    ]_vars

----------------------------------------------------------------------------
(* C13, as stated: a launch shows WalletUpgraded if and only if payments    *)
(* are on, the wallet has funds (balance > 0), the profile is not a new     *)
(* install, the wallet has been upgraded and the user has not been notified *)
(* yet; no other setting gates it.                                          *)
C13_UpgradeShownIff_AsStated ==
  [][ op'.name = "onLaunch" =>
        ( Shows(calls', "walletConvertedToBat")
          <=> /\ settings.paymentsEnabled
              /\ appState.balance > 0
              /\ ~appState.isNewInstall
              /\ appState.hasUpgradedWallet
              /\ ~hasBeenNotified )
    ]_vars

(* C13, amended: the same, with the notifications setting on as one more    *)
(* condition.                                                               *)
C13_UpgradeShownIff ==
  [][ op'.name = "onLaunch" =>
        ( Shows(calls', "walletConvertedToBat")
          <=> /\ settings.paymentsEnabled
              /\ settings.notificationsEnabled
              /\ appState.balance > 0
              /\ ~appState.isNewInstall
              /\ appState.hasUpgradedWallet
              /\ ~hasBeenNotified )
    ]_vars

\* a launch with payments and notifications on, of an old install with
\* funds and an upgraded wallet, has shown the upgrade message
C13_Witness ==
  /\ op.name = "onLaunch"
  /\ Enabled
  /\ appState.balance > 0
  /\ ~appState.isNewInstall
  /\ appState.hasUpgradedWallet
  /\ EmitsOnly(calls, "walletConvertedToBat")

----------------------------------------------------------------------------
(* C14: the upgrade message is shown once per profile.  A step that shows   *)
(* WalletUpgraded first emits onBitcoinToBatNotified, which marks           *)
(* hasBeenNotified, then the notification, and it is taken only with        *)
(* hasBeenNotified unset; once set, hasBeenNotified stays set and no step   *)
(* emits either again.                                                      *)
C14_UpgradeShownOnce ==
  [][ /\ Shows(calls', "walletConvertedToBat")
           => /\ ~hasBeenNotified
              /\ hasBeenNotified'
              /\ calls' = << Call("onBitcoinToBatNotified", "", 0, FALSE),
                             Call("showNotification", "walletConvertedToBat", 0, FALSE) >>
      /\ hasBeenNotified
           => /\ hasBeenNotified'
              /\ \A i \in 1..Len(calls') : calls'[i].fn # "onBitcoinToBatNotified"
    ]_vars

\* a later launch of a notified profile, everything else asking for the
\* upgrade message, has done nothing
C14_Witness ==
  /\ op.name = "onLaunch"
  /\ Enabled
  /\ appState.balance > 0
  /\ ~appState.isNewInstall
  /\ appState.hasUpgradedWallet
  /\ hasBeenNotified
  /\ calls = << >>

----------------------------------------------------------------------------
(* C15: a new transaction can be reported in every state of the scheduler,  *)
(* and the step that reports it first requests hiding the AddFunds message, *)
(* then shows PaymentDone with that transaction's amount and currency, and  *)
(* touches no setting.                                                      *)
C15_PaymentDoneEager ==
  /\ [](\A fiat \in Fiats : ENABLED NewTransaction(fiat))
  /\ [][ op'.name = "showPaymentDone" =>
           /\ calls' =
                << CallMessage("hideNotification", textAddFunds),
                   [fn |-> "showNotification", key |-> "paymentDone",
                    num |-> op'.fiat.amount, flag |-> FALSE,
                    cur |-> op'.fiat.currency] >>
           /\ textAddFunds \notin notifications'
           /\ settings' = settings
       ]_vars

\* a transaction was reported while the add-funds snooze was running and
\* the notifications were off: PaymentDone is out, AddFunds is not
C15_Witness ==
  /\ op.name = "showPaymentDone"
  /\ settings.addFundsTimestamp > now
  /\ ~settings.notificationsEnabled
  /\ PaymentDoneText(op.fiat) \in notifications
  /\ textAddFunds \notin notifications

----------------------------------------------------------------------------
(* The panels a handler asked to open, and the pairs of a notification and  *)
(* a button that open one                                                   *)
Opened(cs) ==
  {cs[i].key : i \in {j \in 1..Len(cs) : cs[j].fn = "createTabRequested"}}

PaymentsPanelPairs ==
  {<<"addFunds", 2>>, <<"reconciliation", 2>>, <<"tryPayments", 1>>}
BackupFlowPairs == {<<"walletConvertedToBat", 0>>}
DismissKeys == {"addFunds", "reconciliation", "paymentDone", "walletConvertedToBat"}

(* C17, as stated: a response asks for the payments panel exactly on        *)
(* (AddFunds, 2), (ReviewPublishers, 2) and (TryPayments, 1), for the       *)
(* backup flow exactly on (WalletUpgraded, 0), and for nothing on every     *)
(* other pair; button 1 of AddFunds, ReviewPublishers, PaymentDone and      *)
(* WalletUpgraded changes no setting.                                       *)
C17_PanelPairs_AsStated ==
  [][ op'.name = "onResponse" =>
        LET pair == <<op'.message.key, op'.buttonIndex>>
        IN  /\ Opened(calls') =
                 IF pair \in PaymentsPanelPairs
                 THEN {"about:preferences#payments"}
                 ELSE IF pair \in BackupFlowPairs
                 THEN {"about:preferences#payments?ledgerBackupOverlayVisible"}
                 ELSE {}
            /\ (op'.buttonIndex = 1 /\ op'.message.key \in DismissKeys)
                 => settings' = settings
    ]_vars

(* C17, amended: the same for a response that comes with an active window; *)
(* a response with no active window asks for no panel.                      *)
C17_PanelPairs ==
  [][ op'.name = "onResponse" =>
        LET pair == <<op'.message.key, op'.buttonIndex>>
        IN  /\ Opened(calls') =
                 IF op'.activeWindow /\ pair \in PaymentsPanelPairs
                 THEN {"about:preferences#payments"}
                 ELSE IF op'.activeWindow /\ pair \in BackupFlowPairs
                 THEN {"about:preferences#payments?ledgerBackupOverlayVisible"}
                 ELSE {}
            /\ (op'.buttonIndex = 1 /\ op'.message.key \in DismissKeys)
                 => settings' = settings
    ]_vars

\* "Add funds" was pressed in a window: the payments panel was asked for,
\* then the message hidden
C17_Witness ==
  /\ op.name = "onResponse"
  /\ op.message = textAddFunds
  /\ op.buttonIndex = 2
  /\ op.activeWindow
  /\ calls = << Call("createTabRequested", "about:preferences#payments", 0, FALSE),
                CallMessage("hideNotification", textAddFunds) >>

----------------------------------------------------------------------------
(* The gates of eligibility, on the numbers themselves: a number that is    *)
(* not there passes no gate                                                 *)
ScoreGate == \E n \in 1..MaxCount : ledger.score = <<n>>
DurationGate ==
  \E d \in 0..MaxCount, m \in 0..MaxCount :
    ledger.duration = <<d>> /\ ledger.minPublisherDuration = <<m>> /\ d >= m
VisitsGate ==
  \E v \in 0..MaxCount, m \in 0..MaxCount :
    ledger.visits = <<v>> /\ ledger.minPublisherVisits = <<m>> /\ v >= m

(* C18: eligibleP is true if and only if the score under the scorekeeper is *)
(* above 0, the duration is at least the minimum duration and the visits    *)
(* are at least the minimum visits; it is false as soon as one gate fails.  *)
C18_EligibleIffThreeGates ==
  answer.fn = "eligibleP" =>
    /\ answer.value \in {"true", "false"}
    /\ answer.value = "true" <=> (ScoreGate /\ DurationGate /\ VisitsGate)

\* eligible with duration and visits exactly at their minimum
C18_Witness ==
  /\ answer.fn = "eligibleP"
  /\ answer.value = "true"
  /\ ledger.duration = ledger.minPublisherDuration
  /\ ledger.visits = ledger.minPublisherVisits

----------------------------------------------------------------------------
(* C19: contributeP is true if and only if (stickyP is true or the exclude  *)
(* option is not strictly true) and eligibleP and not blockedP, for every   *)
(* combination of the site settings, the exclude option and eligibility.    *)
C19_ContributeIff ==
  answer.fn = "contributeP" =>
    /\ answer.value \in {"true", "false"}
    /\ answer.value = "true"
         <=> /\ (stickyP(ledger) = "true" \/ ledger.exclude # "true")
             /\ (ScoreGate /\ DurationGate /\ VisitsGate)
             /\ ledger.ledgerPaymentsShown # "false"

\* the site setting says sticky, the publisher says excluded: it contributes
C19_Witness ==
  /\ answer.fn = "contributeP"
  /\ answer.value = "true"
  /\ ledger.ledgerPayments = "true"
  /\ ledger.exclude = "true"
  /\ ledger.ledgerPaymentsShown = "null"

----------------------------------------------------------------------------
(* C20: stickyP by precedence: the site setting ledgerPayments if it is     *)
(* there; if not, the negation of the exclude option if that is there; if   *)
(* not, true.  Not there is undefined or null, for both.                    *)
C20_StickyPrecedence ==
  answer.fn = "stickyP" =>
    answer.value =
      IF ledger.ledgerPayments \notin {"undefined", "null"}
      THEN ledger.ledgerPayments
      ELSE IF ledger.exclude \notin {"undefined", "null"}
      THEN (IF ledger.exclude = "true" THEN "false" ELSE "true")
      ELSE "true"

(* C20 with the site setting undefined, true or false: that much of the     *)
(* claim the code keeps.  A null site setting with no exclude option comes  *)
(* back as null.                                                            *)
C20_StickyPrecedenceNoNullSetting ==
  (answer.fn = "stickyP" /\ ledger.ledgerPayments # "null") =>
    answer.value =
      IF ledger.ledgerPayments # "undefined"
      THEN ledger.ledgerPayments
      ELSE IF ledger.exclude \notin {"undefined", "null"}
      THEN (IF ledger.exclude = "true" THEN "false" ELSE "true")
      ELSE "true"

----------------------------------------------------------------------------
(* only verified publishers are shown: the negation of the synopsis option  *)
(* showOnlyVerified or, with the option unset (undefined or null), of the   *)
(* general setting                                                          *)
OnlyVerified ==
  IF ledger.showOnlyVerified \in {"undefined", "null"}
  THEN ledger.allowNonVerified # "true"
  ELSE ledger.showOnlyVerified # "true"

(* C21: visibleP is true if and only if the publisher is eligible, is       *)
(* verified unless not only verified ones are shown, and is not blocked; a  *)
(* publisher with ledgerPaymentsShown explicitly false is never visible.    *)
C21_VisibleIff ==
  answer.fn = "visibleP" =>
    /\ answer.value \in {"true", "false"}
    /\ answer.value = "true"
         <=> /\ (ScoreGate /\ DurationGate /\ VisitsGate)
             /\ (~OnlyVerified \/ ledger.verified = "true")
             /\ ledger.ledgerPaymentsShown # "false"
    /\ ledger.ledgerPaymentsShown = "false" => answer.value = "false"

\* visible through the general setting, the option unset: not verified, and
\* non-verified publishers allowed
C21_Witness ==
  /\ answer.fn = "visibleP"
  /\ answer.value = "true"
  /\ ledger.showOnlyVerified = "undefined"
  /\ ledger.allowNonVerified = "true"
  /\ ledger.verified = "false"

----------------------------------------------------------------------------
(* C22: a call of visibleP with the synopsis option showOnlyVerified unset  *)
(* leaves the option set, to the general setting, in the caller's ledger    *)
(* state: a later read finds it there.                                      *)
C22_OptionWrittenBack ==
  [][ (answer'.fn = "visibleP" /\ ledger.showOnlyVerified \in {"undefined", "null"})
      => ledger'.showOnlyVerified = ledger.allowNonVerified
    ]_vars

(* C22, the half the code keeps: the state the caller passed is not changed *)
(* in place by any call.                                                    *)
C22_CallerStateUntouched ==
  [][ answer'.fn = "visibleP" => ledger' = ledger ]_vars

----------------------------------------------------------------------------
(* the payload has both lists, written from these entries                   *)
BothLists == media.data = "object" /\ media.st.kind = "string" /\ media.et.kind = "string"

AllNumeric ==
  /\ \A i \in 1..Len(media.st.list) : media.st.list[i].numeric
  /\ \A i \in 1..Len(media.et.list) : media.et.list[i].numeric

RECURSIVE SumTenths(_, _, _)
SumTenths(starts, ends, i) ==
  IF i > Len(starts) THEN 0
  ELSE (ends[i].tenths - starts[i].tenths) + SumTenths(starts, ends, i + 1)

\* the milliseconds of the segments, the fraction of a millisecond dropped
SegmentsMs ==
  LET tenths == SumTenths(media.st.list, media.et.list, 1)
  IN  IF tenths >= 0 THEN tenths \div 10 ELSE -((-tenths) \div 10)

(* C23: getYouTubeDuration returns 0 for a null payload and for lists of    *)
(* different length; for lists of numbers of the same length it returns the *)
(* sum of end[i] - start[i] in milliseconds, truncated to an integer:       *)
(* 14762 and 10001 for the two payloads of the unit tests.                  *)
C23_YouTubeDuration ==
  answer.fn = "getYouTubeDuration" =>
    /\ media.data = "null" => answer.value = jsInteger(0)
    /\ (BothLists /\ Len(media.st.list) # Len(media.et.list))
         => answer.value = jsInteger(0)
    /\ (BothLists /\ Len(media.st.list) = Len(media.et.list) /\ AllNumeric)
         => answer.value = jsInteger(SegmentsMs)
    /\ (BothLists /\ media.st.list = <<entry11338, entry21339, entry25000>>
          /\ media.et.list = <<entry21339, entry25000, entry26100>>)
         => answer.value = jsInteger(14762)
    /\ (BothLists /\ media.st.list = <<entry11338>>
          /\ media.et.list = <<entry21339>>)
         => answer.value = jsInteger(10001)

\* three segments watched, the payload of the unit test
C23_Witness ==
  /\ answer.fn = "getYouTubeDuration"
  /\ BothLists
  /\ media.st.list = <<entry11338, entry21339, entry25000>>
  /\ media.et.list = <<entry21339, entry25000, entry26100>>
  /\ answer.value = jsInteger(14762)

----------------------------------------------------------------------------
(* C24: for every payload and every provider the duration extracted is a    *)
(* number, and it is 0 for a payload with st or et missing, with lists of   *)
(* different length, with an empty or non-numeric entry, and for a provider *)
(* that is not known.                                                       *)
C24_FailSoft ==
  answer.fn \in {"getMediaDuration", "getYouTubeDuration"} =>
    /\ answer.value.kind = "number"
    /\ ( \/ answer.type # YOUTUBE
         \/ media.data = "null"
         \/ media.st.kind \in {"undefined", "null"}
         \/ media.et.kind \in {"undefined", "null"}
         \/ Len(media.st.list) # Len(media.et.list)
         \/ ~AllNumeric ) => answer.value = jsInteger(0)

(* C24, what the code keeps: the duration is the number 0 for a provider    *)
(* that is not known, for a null payload, for st or et undefined or null,   *)
(* and for lists of different length.                                       *)
C24_FailSoftMissing ==
  ( /\ answer.fn \in {"getMediaDuration", "getYouTubeDuration"}
    /\ \/ answer.type # YOUTUBE
       \/ media.data = "null"
       \/ media.st.kind \in {"undefined", "null"}
       \/ media.et.kind \in {"undefined", "null"}
       \/ (BothLists /\ Len(media.st.list) # Len(media.et.list)) )
    => answer.value = jsInteger(0)

----------------------------------------------------------------------------
(* the letters of str in lower case, stated on the alphabet                 *)
Lowered(str) == [i \in 1..Len(str) |-> IF str[i] = "A" THEN "a" ELSE str[i]]

Present(v) == v.kind = "string"

HasUnderscore(str) == \E i \in 1..Len(str) : str[i] = "_"

(* C25 as stated: the key of an id and a provider that are both there is    *)
(* the provider in lower case, a colon, and the id.                         *)
C25_MediaKey_AsStated ==
  (answer.fn = "getMediaKey" /\ Present(media.id) /\ Present(media.type))
    => answer.value = jsString(Lowered(media.type.chars) \o <<":">> \o media.id.chars)

(* C25: getMediaKey is null when the id or the provider is missing, and     *)
(* otherwise the provider in lower case, an underscore, and the id.  The    *)
(* same id and provider give the same key, also when the provider is        *)
(* written in another case; of two pairs whose providers have no            *)
(* underscore, different ids or providers that differ by more than case     *)
(* give different keys.                                                     *)
C25_MediaKey ==
  answer.fn = "getMediaKey" =>
    /\ ~(Present(media.id) /\ Present(media.type)) => answer.value = jsNull
    /\ (Present(media.id) /\ Present(media.type)) =>
         /\ answer.value
              = jsString(Lowered(media.type.chars) \o <<"_">> \o media.id.chars)
         /\ \A id \in KeyStrings, type \in KeyStrings \cup {YOUTUBE} :
              /\ (id = media.id /\ Lowered(type.chars) = Lowered(media.type.chars))
                   => getMediaKey(id, type) = answer.value
              /\ ( /\ ~HasUnderscore(type.chars)
                   /\ ~HasUnderscore(media.type.chars)
                   /\ \/ id # media.id
                      \/ Lowered(type.chars) # Lowered(media.type.chars) )
                   => getMediaKey(id, type) # answer.value

\* a key of a provider written in upper case
C25_Witness ==
  /\ answer.fn = "getMediaKey"
  /\ media.type = jsString(<<"A">>)
  /\ media.id = jsString(<<"A", "a">>)
  /\ answer.value = jsString(<<"a", "_", "A", "a">>)

----------------------------------------------------------------------------
(* C26: eligibleP is monotonic in visits and duration: once a publisher has *)
(* been found eligible, every later call, after any increases of its visits *)
(* and duration with the score and the thresholds as they were, finds it    *)
(* eligible.                                                                *)
C26_EligibleMonotonic ==
  [][ (answer.fn = "eligibleP" /\ answer.value = "true" /\ answer'.fn = "eligibleP")
      => answer'.value = "true"
    ]_vars

\* found eligible, visited since, and found eligible on the larger counts
C26_Witness ==
  /\ answer.fn = "eligibleP"
  /\ answer.again
  /\ answer.value = "true"
  /\ ledger.visits[1] > ledger.minPublisherVisits[1]
  /\ ledger.duration[1] > ledger.minPublisherDuration[1]

----------------------------------------------------------------------------
(* how many frames that are not pinned stand before position p              *)
NonPinnedBefore(p) ==
  Cardinality({q \in 1..(p - 1) : ~tabs.frames[q].pinned})

(* the page a frame that is not pinned belongs to, with the setting as it   *)
(* is now                                                                   *)
PageOf(p) == NonPinnedBefore(p) \div tabs.tabsPerPage

OnPage(page, key) == \E j \in 1..Len(page) : page[j].key = key

(* C27: the frames of tab page i are exactly the frames that are not        *)
(* pinned and have i*N .. i*N+N-1 frames that are not pinned before them,   *)
(* in the window's order, N being the setting at the evaluation: pinned     *)
(* frames are on no page, every other frame is on the one page its place    *)
(* among them gives, N of them fit on page 0 and the next one is the first  *)
(* frame of page 1.                                                         *)
C27_TabPageFrames ==
  answer.fn = "mergeProps" =>
    LET page == answer.value.tabPageFrames
        index == answer.value.index
    IN  /\ \A p \in 1..Len(tabs.frames) :
             OnPage(page, tabs.frames[p].key)
               <=> (~tabs.frames[p].pinned /\ PageOf(p) = index)
        /\ \A j \in 1..Len(page) :
             \E p \in 1..Len(tabs.frames) :
               /\ tabs.frames[p] = page[j]
               /\ NonPinnedBefore(p) = index * tabs.tabsPerPage + (j - 1)
        /\ Len(page) <= tabs.tabsPerPage
        /\ answer.value.isPageEmpty <=> (page = << >>)

\* page 1 after the setting was made smaller: its first frame is the one
\* with N frames that are not pinned before it, a pinned one among the
\* frames before it
C27_Witness ==
  /\ answer.fn = "mergeProps"
  /\ answer.value.index = 1
  /\ tabs.tabsPerPage # DefaultTabsPerPage
  /\ answer.value.tabPageFrames # << >>
  /\ \E p \in 1..Len(tabs.frames) :
       /\ tabs.frames[p] = answer.value.tabPageFrames[1]
       /\ NonPinnedBefore(p) = tabs.tabsPerPage
       /\ p > tabs.tabsPerPage + 1

----------------------------------------------------------------------------
C28_OneShownPerStep == [][Len(ShowCalls(calls')) <= 1]_vars

----------------------------------------------------------------------------
(* the step's handler wrote the setting key                                 *)
Writes(cs, key) ==
  \E i \in 1..Len(cs) : cs[i].fn = "changeSetting" /\ cs[i].key = key

(* C29: a tick emits at most one notification request; AddFunds and         *)
(* ReviewPublishers only with payments and notifications on, AddFunds only  *)
(* with funds insufficient and ReviewPublishers only with funds sufficient; *)
(* and it writes a snooze timestamp only for the kind it emits.             *)
C29_TickExclusive ==
  [][ TickStep =>
        /\ Len(ShowCalls(calls')) <= 1
        /\ (Shows(calls', "addFunds") \/ Shows(calls', "reconciliation")) => Enabled
        /\ Shows(calls', "addFunds") => FundsInsufficient(TickState)
        /\ Shows(calls', "reconciliation") => FundsSufficient(TickState)
        /\ Writes(calls', "addFundsTimestamp") => Shows(calls', "addFunds")
        /\ Writes(calls', "reconcileSoonTimestamp") => Shows(calls', "reconciliation")
    ]_vars

(* C29 with the line the code draws: AddFunds only with no target or with   *)
(* balance + unconfirmed at most 0.9 of it, ReviewPublishers only above.    *)
C29_TickExclusiveAbove90 ==
  [][ TickStep =>
        /\ Len(ShowCalls(calls')) <= 1
        /\ (Shows(calls', "addFunds") \/ Shows(calls', "reconciliation")) => Enabled
        /\ Shows(calls', "addFunds") =>
             \/ TickState.bat = 0
             \/ 10 * (TickState.balance + TickState.unconfirmed) <= 9 * TickState.bat
        /\ Shows(calls', "reconciliation") =>
             /\ TickState.bat # 0
             /\ 10 * (TickState.balance + TickState.unconfirmed) > 9 * TickState.bat
        /\ Writes(calls', "addFundsTimestamp") => Shows(calls', "addFunds")
        /\ Writes(calls', "reconcileSoonTimestamp") => Shows(calls', "reconciliation")
    ]_vars

----------------------------------------------------------------------------
(* C30: every value a step writes to the review or the add-funds snooze     *)
(* timestamp is later than the clock at the time of writing, for every      *)
(* reconcile stamp and every reconcile frequency.                           *)
C30_WrittenInFuture ==
  [][ \A i \in 1..Len(calls') :
        ( /\ calls'[i].fn = "changeSetting"
          /\ calls'[i].key \in {"addFundsTimestamp", "reconcileSoonTimestamp"} )
        => calls'[i].num > now
    ]_vars

(* C30, what the code keeps: the add-funds snooze is always written in the  *)
(* future, and so is the review snooze written by a tick a day or more      *)
(* before reconciliation.                                                   *)
C30_WrittenInFutureFromADay ==
  [][ \A i \in 1..Len(calls') :
        ( /\ calls'[i].fn = "changeSetting"
          /\ \/ calls'[i].key = "addFundsTimestamp"
             \/ /\ calls'[i].key = "reconcileSoonTimestamp"
                /\ TickStep
                /\ Remaining(TickState) >= day )
        => calls'[i].num > now
    ]_vars

----------------------------------------------------------------------------
(* the user has opted the publisher out of automatic contribution: the site *)
(* setting ledgerPayments is false, or there is no site setting and the     *)
(* exclude option is true                                                   *)
OptedOut ==
  \/ ledger.ledgerPayments = "false"
  \/ ledger.ledgerPayments \in {"undefined", "null"} /\ ledger.exclude = "true"

(* C31: a publisher the user has opted out of automatic contribution is     *)
(* never selected by contributeP, whatever its visits, duration and score.  *)
C31_OptedOutNeverContributes ==
  (answer.fn = "contributeP" /\ OptedOut) => answer.value = "false"

(* C31, what the code keeps: opted out and with the exclude option true, a  *)
(* publisher is never selected.                                             *)
C31_OptedOutAndExcluded ==
  (answer.fn = "contributeP" /\ OptedOut /\ ledger.exclude = "true")
    => answer.value = "false"

----------------------------------------------------------------------------
(* the call was on a created wallet without error                           *)
CreatedWallet ==
  answer.fn = "walletStatus" /\ answer.data.created /\ ~answer.data.error

(* C32: for a created wallet without error, walletStatus reports            *)
(* insufficientFundsStatus exactly when unconfirmed + balance is below 0.9  *)
(* of the contribution target, which away from the 90% line is exactly when *)
(* the scheduler's sufficiency test is false; with funds sufficient it      *)
(* reports pendingFundsStatus if and only if unconfirmed is above 0.        *)
C32_StatusBySum ==
  CreatedWallet =>
    /\ answer.value = "insufficientFundsStatus"
         <=> 10 * (appState.unconfirmed + appState.balance) < 9 * appState.bat
    /\ 10 * (appState.unconfirmed + appState.balance) # 9 * appState.bat
         => (answer.value = "insufficientFundsStatus"
               <=> ~sufficientBalanceToReconcile(appState))
    /\ answer.value # "insufficientFundsStatus"
         => (answer.value = "pendingFundsStatus" <=> appState.unconfirmed > 0)

(* C32, what the code does on whole amounts: the status is insufficient     *)
(* exactly when unconfirmed alone is below 0.9 of the target, whatever the  *)
(* balance, and pending, if not insufficient, exactly when unconfirmed is   *)
(* above 0.                                                                 *)
C32_StatusByUnconfirmed ==
  CreatedWallet =>
    /\ answer.value = "insufficientFundsStatus"
         <=> 10 * appState.unconfirmed < 9 * appState.bat
    /\ answer.value # "insufficientFundsStatus"
         => (answer.value = "pendingFundsStatus" <=> appState.unconfirmed > 0)

----------------------------------------------------------------------------
(* the call was for the provider YOUTUBE, on lists of numbers of the same   *)
(* length                                                                   *)
NumericSegments ==
  /\ answer.fn \in {"getMediaDuration", "getYouTubeDuration"}
  /\ answer.type = YOUTUBE
  /\ BothLists
  /\ Len(media.st.list) = Len(media.et.list)
  /\ AllNumeric

(* C33: the duration of a payload with lists of numbers of the same length  *)
(* is a whole number of milliseconds, not below 0, also when a segment ends *)
(* before it starts.                                                        *)
C33_DurationNotNegative ==
  NumericSegments =>
    /\ answer.value.kind = "number"
    /\ answer.value.per = 1
    /\ answer.value.n >= 0

(* C33, what the code keeps: the duration is a whole number, and it is not  *)
(* below 0 when no segment ends before it starts.                           *)
C33_DurationWholeNumber ==
  NumericSegments =>
    /\ answer.value.kind = "number"
    /\ answer.value.per = 1
    /\ (\A i \in 1..Len(media.st.list) :
          media.et.list[i].tenths >= media.st.list[i].tenths)
         => answer.value.n >= 0

====
